---- MODULE Spec2Model ----
(***************************************************************************)
(* Model of rust_ext/src/lib.rs: the word-packed BitSet, the FcaContext    *)
(* prime operators, Lindig's lattice construction and the two FCBO concept *)
(* enumerations.                                                           *)
(*                                                                         *)
(* A u64 word is modelled as the set of its set bit positions (a subset of *)
(* 0..63), a u128 as a subset of 0..127: the arithmetic on words           *)
(* (decrement, numeric comparison, shifts for masks) is defined on that    *)
(* representation bit for bit.  Indices are 0-based as in the source;      *)
(* a Vec v is a sequence, and v[i] of the source is v[i + 1] here.         *)
(***************************************************************************)
EXTENDS Integers, Sequences, FiniteSets, TLC

\* ---------------------------------------------------------------- bounds
MaxObjects == 4
MaxProps == 4
MaxCells == 9
MaxBits == 130
MaxOut == 20

\* ------------------------------------------------------------- constants
WordBits == 64

VARIABLES ctx, pc, infimum, concepts, mapping, heap, popped, lindig_result,
          stack, result, dstack, dresult, bits_in, bits_out

vars == <<ctx, pc, infimum, concepts, mapping, heap, popped, lindig_result,
          stack, result, dstack, dresult, bits_in, bits_out>>

\* ------------------------------------------------------------ word level
Bit == 0 .. (WordBits - 1)

SetMin(S) == CHOOSE x \in S : \A y \in S : x <= y
SetMax(S) == CHOOSE x \in S : \A y \in S : y <= x

RECURSIVE Ascending(_)
\* the elements of a finite set of naturals as an ascending sequence
Ascending(S) == IF S = {} THEN <<>> ELSE <<SetMin(S)>> \o Ascending(S \ {SetMin(S)})

\* (1u64 << k) - 1
LowMask(k) == 0 .. (k - 1)

\* *w -= 1 on a non-zero u64: the lowest set bit is cleared, all below it set
WordDec(w) == (w \ {SetMin(w)}) \cup LowMask(SetMin(w))

\* a < b on u64: the highest bit in which they differ is set in b
WordLess(a, b) == a # b /\ SetMax((a \ b) \cup (b \ a)) \in b

\* Vec<u64> lexicographic Ord, element 0 first
VecLess(v, w) ==
    \/ \E i \in 1 .. Len(v) :
          /\ i <= Len(w)
          /\ \A k \in 1 .. (i - 1) : v[k] = w[k]
          /\ WordLess(v[i], w[i])
    \/ /\ Len(v) < Len(w)
       /\ \A k \in 1 .. Len(v) : v[k] = w[k]

\* (usize, Vec<u64>) tuple Ord
KeyLess(a, b) == a[1] < b[1] \/ (a[1] = b[1] /\ VecLess(a[2], b[2]))

\* ---------------------------------------------------------------- BitSet
NWords(n_bits) == (n_bits + (WordBits - 1)) \div WordBits

MaskLast(words, n_bits) ==
    IF n_bits % WordBits # 0
    THEN [words EXCEPT ![Len(words)] = @ \cap LowMask(n_bits % WordBits)]
    ELSE words

new(n_bits) == [words |-> [w \in 1 .. NWords(n_bits) |-> {}], n_bits |-> n_bits]

supremum(n_bits) ==
    [words |-> MaskLast([w \in 1 .. NWords(n_bits) |-> Bit], n_bits), n_bits |-> n_bits]

\* value: a u128 as its set of bit positions; the value is not masked to n_bits
from_u128(value, n_bits) ==
    [words |-> [w \in 1 .. NWords(n_bits) |->
                   IF w = 1 THEN value \cap Bit
                   ELSE IF w = 2 THEN {b \in Bit : (b + WordBits) \in value}
                   ELSE {}],
     n_bits |-> n_bits]

to_u128(self) ==
    (IF Len(self.words) >= 1 THEN self.words[1] ELSE {})
    \cup (IF Len(self.words) >= 2 THEN {b + WordBits : b \in self.words[2]} ELSE {})

is_empty(self) == \A w \in 1 .. Len(self.words) : self.words[w] = {}

RECURSIVE SumCard(_, _)
SumCard(words, w) ==
    IF w > Len(words) THEN 0 ELSE Cardinality(words[w]) + SumCard(words, w + 1)

count(self) == SumCard(self.words, 1)

get(self, i) ==
    IF i >= self.n_bits THEN FALSE
    ELSE (i % WordBits) \in self.words[(i \div WordBits) + 1]

set(self, i) ==
    IF i < self.n_bits
    THEN [self EXCEPT !.words[(i \div WordBits) + 1] = @ \cup {i % WordBits}]
    ELSE self

complement(self) ==
    [words |-> MaskLast([w \in 1 .. Len(self.words) |-> Bit \ self.words[w]], self.n_bits),
     n_bits |-> self.n_bits]

and(self, other) ==
    [words |-> [w \in 1 .. NWords(self.n_bits) |->
                   IF w <= Len(self.words) /\ w <= Len(other.words)
                   THEN self.words[w] \cap other.words[w] ELSE {}],
     n_bits |-> self.n_bits]

or(self, other) ==
    [words |-> [w \in 1 .. NWords(self.n_bits) |->
                   IF w <= Len(self.words) /\ w <= Len(other.words)
                   THEN self.words[w] \cup other.words[w] ELSE {}],
     n_bits |-> self.n_bits]

RECURSIVE Borrow(_, _, _)
\* the loop of sub_one over the words from index w on, with the borrow flag
Borrow(words, w, borrow) ==
    IF w > Len(words) \/ ~borrow THEN words
    ELSE IF words[w] = {}
         THEN Borrow([words EXCEPT ![w] = Bit], w + 1, TRUE)
         ELSE Borrow([words EXCEPT ![w] = WordDec(@)], w + 1, FALSE)

\* a sub_one whose borrow stops at the first word
sub_one_no_carry(self) ==
    [words |-> MaskLast(IF Len(self.words) = 0 THEN self.words
                        ELSE IF self.words[1] = {}
                             THEN [self.words EXCEPT ![1] = Bit]
                             ELSE [self.words EXCEPT ![1] = WordDec(@)],
                        self.n_bits),
     n_bits |-> self.n_bits]

\* a sub_one that decrements by wrapping an atom at position 0 to all ones
sub_one_wrap_zero(self) ==
    IF count(self) = 1 /\ get(self, 0) THEN supremum(self.n_bits)
    ELSE [words |-> MaskLast(Borrow(self.words, 1, TRUE), self.n_bits),
          n_bits |-> self.n_bits]

sub_one(self) ==
    [words |-> MaskLast(Borrow(self.words, 1, TRUE), self.n_bits),
     n_bits |-> self.n_bits]

shortlex(self) == <<count(self), self.words>>

\* the set bit positions below n_bits, ascending
iter_bits(self) ==
    Ascending({p \in 0 .. (self.n_bits - 1) :
                  /\ p < Len(self.words) * WordBits
                  /\ (p % WordBits) \in self.words[(p \div WordBits) + 1]})

atoms(self) ==
    LET bits == iter_bits(self)
    IN  [k \in 1 .. Len(bits) |-> set(new(self.n_bits), bits[k])]

\* ------------------------------------------------------------ FcaContext
FcaContext_new(n_objects, n_properties, extents_raw, intents_raw) ==
    [n_objects |-> n_objects,
     n_properties |-> n_properties,
     extents |-> [j \in 1 .. Len(extents_raw) |-> from_u128(extents_raw[j], n_objects)],
     intents |-> [i \in 1 .. Len(intents_raw) |-> from_u128(intents_raw[i], n_properties)]]

RECURSIVE AndRows(_, _, _, _)
\* the fold of prime_*: result = result.and(rows[i]) for the bits from k on
AndRows(acc, bits, k, rows) ==
    IF k > Len(bits) THEN acc
    ELSE AndRows(IF bits[k] < Len(rows) THEN and(acc, rows[bits[k] + 1]) ELSE acc,
                 bits, k + 1, rows)

prime_objects(c, objects) ==
    AndRows(supremum(c.n_properties), iter_bits(objects), 1, c.intents)

prime_properties(c, properties) ==
    AndRows(supremum(c.n_objects), iter_bits(properties), 1, c.extents)

\* a double prime that returns the given objects instead of their closure
doubleprime_objects_unclosed(c, objects) == <<objects, prime_objects(c, objects)>>

\* <<extent, intent>>
doubleprime_objects(c, objects) ==
    LET intent == prime_objects(c, objects)
    IN  <<prime_properties(c, intent), intent>>

doubleprime_properties(c, properties) ==
    LET extent == prime_properties(c, properties)
    IN  <<extent, prime_objects(c, extent)>>

\* ---------------------------------------------------------------- Lindig
HeapEntry(extent, intent, index) ==
    [shortlex_key |-> shortlex(extent), extent |-> extent, intent |-> intent,
     index |-> index]

\* an order on heap entries that ignores the cardinality
HeapEntry_cmp_lex(a, b) == VecLess(b.shortlex_key[2], a.shortlex_key[2])

\* the comparison without the reversal: the heap pops the maximum
HeapEntry_cmp_forward(a, b) == KeyLess(b.shortlex_key, a.shortlex_key)

\* Ord for HeapEntry: a is Greater than b (reversed, so the heap pops the minimum)
HeapEntry_cmp(a, b) == KeyLess(a.shortlex_key, b.shortlex_key)

\* BinaryHeap::pop: an entry no other entry is Greater than
HeapTop(h) == {e \in h : \A o \in h : ~HeapEntry_cmp(o, e)}

RECURSIVE NeighborsFrom(_, _, _, _, _)
\* the loop of neighbors from object i on
NeighborsFrom(i, minimal, acc, objects, c) ==
    IF i >= c.n_objects THEN acc
    ELSE IF ~get(minimal, i) THEN NeighborsFrom(i + 1, minimal, acc, objects, c)
    ELSE LET add == set(new(c.n_objects), i)
             objects_and_add == or(objects, add)
             dp == doubleprime_objects(c, objects_and_add)
             check == and(and(dp[1], complement(objects_and_add)), minimal)
         IN  IF ~is_empty(check)
             THEN NeighborsFrom(i + 1, and(minimal, complement(add)), acc, objects, c)
             ELSE NeighborsFrom(i + 1, minimal, Append(acc, dp), objects, c)

RECURSIVE NeighborsAll(_, _, _, _)
\* neighbors without the minimality test: every closure objects + i
NeighborsAll(i, acc, objects, c) ==
    IF i >= c.n_objects THEN acc
    ELSE IF get(objects, i) THEN NeighborsAll(i + 1, acc, objects, c)
    ELSE NeighborsAll(i + 1,
             Append(acc, doubleprime_objects(c, or(objects, set(new(c.n_objects), i)))),
             objects, c)

neighbors_no_minimal(objects, c) == NeighborsAll(0, <<>>, objects, c)

neighbors(objects, c) == NeighborsFrom(0, complement(objects), <<>>, objects, c)

\* LinkNeighbor that leaves the lower list of an existing neighbour alone
LinkNeighbor_skip_lower(st, nb, current_idx) ==
    LET n_key == nb[1].words
    IN  IF n_key \in DOMAIN st.mapping
        THEN [st EXCEPT !.concepts[current_idx + 1].upper = Append(@, st.mapping[n_key])]
        ELSE LET new_idx == Len(st.concepts)
             IN  [concepts |-> Append([st.concepts EXCEPT ![current_idx + 1].upper =
                                                            Append(@, new_idx)],
                                      [extent |-> nb[1], intent |-> nb[2],
                                       upper |-> <<>>, lower |-> <<current_idx>>]),
                  mapping |-> (n_key :> new_idx) @@ st.mapping,
                  heap |-> st.heap \cup {HeapEntry(nb[1], nb[2], new_idx)}]

\* LinkNeighbor that creates a new concept with an empty lower list
LinkNeighbor_new_no_lower(st, nb, current_idx) ==
    LET n_key == nb[1].words
    IN  IF n_key \in DOMAIN st.mapping
        THEN LET existing_idx == st.mapping[n_key]
             IN  [st EXCEPT
                    !.concepts = [[@ EXCEPT ![current_idx + 1].upper = Append(@, existing_idx)]
                                     EXCEPT ![existing_idx + 1].lower = Append(@, current_idx)]]
        ELSE LET new_idx == Len(st.concepts)
             IN  [concepts |-> Append([st.concepts EXCEPT ![current_idx + 1].upper =
                                                            Append(@, new_idx)],
                                      [extent |-> nb[1], intent |-> nb[2],
                                       upper |-> <<>>, lower |-> <<>>]),
                  mapping |-> (n_key :> new_idx) @@ st.mapping,
                  heap |-> st.heap \cup {HeapEntry(nb[1], nb[2], new_idx)}]

\* the body of `for (n_extent, n_intent) in nbrs` for one neighbour, on the
\* loop state st = [concepts, mapping, heap]
LinkNeighbor(st, nb, current_idx) ==
    LET n_key == nb[1].words
    IN  IF n_key \in DOMAIN st.mapping
        THEN LET existing_idx == st.mapping[n_key]
             IN  [st EXCEPT
                    !.concepts = [[@ EXCEPT ![current_idx + 1].upper = Append(@, existing_idx)]
                                     EXCEPT ![existing_idx + 1].lower = Append(@, current_idx)]]
        ELSE LET new_idx == Len(st.concepts)
             IN  [concepts |-> Append([st.concepts EXCEPT ![current_idx + 1].upper =
                                                            Append(@, new_idx)],
                                      [extent |-> nb[1], intent |-> nb[2],
                                       upper |-> <<>>, lower |-> <<current_idx>>]),
                  mapping |-> (n_key :> new_idx) @@ st.mapping,
                  heap |-> st.heap \cup {HeapEntry(nb[1], nb[2], new_idx)}]

RECURSIVE LinkAll(_, _, _, _)
LinkAll(st, nbrs, k, current_idx) ==
    IF k > Len(nbrs) THEN st
    ELSE LinkAll(LinkNeighbor(st, nbrs[k], current_idx), nbrs, k + 1, current_idx)

\* ------------------------------------------------------------------ FCBO
Frame(concept, index, sets) == [concept |-> concept, index |-> index, sets |-> sets]

\* a containment test that always succeeds
Within_always(x, y) == TRUE

\* x.and(y) == x
Within(x, y) == and(x, y) = x

RECURSIVE FcboLoop(_, _, _, _, _, _)
\* the reverse loop over j_atom[property_index..] from j down, on the loop
\* state st = [sets, stack]: sets is next_property_sets
FcboLoop(j, st, property_index, extent, intent, c) ==
    IF j < property_index THEN st
    ELSE LET j_property == atoms(supremum(c.n_properties))[j + 1]
             j_mask == sub_one(j_property)
             x == and(st.sets[j + 1], j_mask)
             j_extent_bits == and(extent, c.extents[j + 1])
             j_intent == prime_objects(c, j_extent_bits)
             j_lower == and(j_intent, j_mask)
         IN  IF ~is_empty(and(j_property, intent))
             THEN FcboLoop(j - 1, st, property_index, extent, intent, c)
             ELSE IF ~Within(x, intent)
             THEN FcboLoop(j - 1, st, property_index, extent, intent, c)
             ELSE IF Within(j_lower, intent)
             THEN FcboLoop(j - 1,
                      [st EXCEPT !.stack =
                          Append(@, Frame(<<j_extent_bits, j_intent>>, j + 1, st.sets))],
                      property_index, extent, intent, c)
             ELSE FcboLoop(j - 1, [st EXCEPT !.sets[j + 1] = j_intent],
                      property_index, extent, intent, c)

\* fcbo_expand that reads the top frame without removing it from the stack
fcbo_expand_keep(frame, rest, c) ==
    IF frame.index = c.n_properties \/ is_empty(frame.concept[1]) THEN Append(rest, frame)
    ELSE FcboLoop(c.n_properties - 1, [sets |-> frame.sets, stack |-> Append(rest, frame)],
                  frame.index, frame.concept[1], frame.concept[2], c).stack

\* the stack after the body of the while loop for the popped frame
fcbo_expand(frame, rest, c) ==
    IF frame.index = c.n_properties \/ is_empty(frame.concept[1]) THEN rest
    ELSE FcboLoop(c.n_properties - 1, [sets |-> frame.sets, stack |-> rest],
                  frame.index, frame.concept[1], frame.concept[2], c).stack

RECURSIVE DualLoop(_, _, _, _, _, _)
\* the same loop of fcbo_dual over j_atom[object_index..]; sets is next_object_sets
DualLoop(j, st, object_index, extent, intent, c) ==
    IF j < object_index THEN st
    ELSE LET j_object == atoms(supremum(c.n_objects))[j + 1]
             j_mask == sub_one(j_object)
             x == and(st.sets[j + 1], j_mask)
             j_intent_bits == and(intent, c.intents[j + 1])
             j_extent == prime_properties(c, j_intent_bits)
             j_lower == and(j_extent, j_mask)
         IN  IF ~is_empty(and(extent, j_object))
             THEN DualLoop(j - 1, st, object_index, extent, intent, c)
             ELSE IF ~Within(x, extent)
             THEN DualLoop(j - 1, st, object_index, extent, intent, c)
             ELSE IF Within(j_lower, extent)
             THEN DualLoop(j - 1,
                      [st EXCEPT !.stack =
                          Append(@, Frame(<<j_extent, j_intent_bits>>, j + 1, st.sets))],
                      object_index, extent, intent, c)
             ELSE DualLoop(j - 1, [st EXCEPT !.sets[j + 1] = j_extent],
                      object_index, extent, intent, c)

\* dual_expand with the stop test of the primal loop (extent instead of intent)
dual_expand_extent_stop(frame, rest, c) ==
    IF frame.index = c.n_objects \/ is_empty(frame.concept[1]) THEN rest
    ELSE DualLoop(c.n_objects - 1, [sets |-> frame.sets, stack |-> rest],
                  frame.index, frame.concept[1], frame.concept[2], c).stack

dual_expand(frame, rest, c) ==
    IF frame.index = c.n_objects \/ is_empty(frame.concept[2]) THEN rest
    ELSE DualLoop(c.n_objects - 1, [sets |-> frame.sets, stack |-> rest],
                  frame.index, frame.concept[1], frame.concept[2], c).stack

\* ------------------------------------------------------------------ state
\* a u128 with bits below n: every subset of 0 .. n-1
Raw(n) == SUBSET (0 .. (n - 1))

\* the raw arguments of the *_py entry points for an incidence I
ContextOf(no, np, I) ==
    FcaContext_new(no, np,
        [j \in 1 .. np |-> {i \in 0 .. (no - 1) : <<i, j - 1>> \in I}],
        [i \in 1 .. no |-> {j \in 0 .. (np - 1) : <<i - 1, j>> \in I}])

NoBits == new(0)

Idle ==
    /\ infimum = {}
    /\ concepts = <<>> /\ mapping = <<>> /\ heap = {} /\ popped = <<>>
    /\ lindig_result = <<>>
    /\ stack = <<>> /\ result = <<>> /\ dstack = <<>> /\ dresult = <<>>
    /\ bits_in = NoBits /\ bits_out = NoBits

Init ==
    /\ \E no \in 0 .. MaxObjects, np \in 0 .. MaxProps :
          /\ no * np <= MaxCells
          /\ \E I \in SUBSET ((0 .. (no - 1)) \X (0 .. (np - 1))) :
                ctx = ContextOf(no, np, I)
    /\ pc = "idle"
    /\ Idle

\* fcbo_fast_generate_from: the prologue
FcboCall ==
    /\ pc = "idle"
    /\ pc' = "fcbo"
    /\ stack' = <<Frame(doubleprime_objects(ctx, supremum(ctx.n_objects)), 0,
                        [j \in 1 .. ctx.n_properties |-> new(ctx.n_properties)])>>
    /\ result' = <<>>
    /\ UNCHANGED <<ctx, infimum, concepts, mapping, heap, popped, lindig_result,
                   dstack, dresult, bits_in, bits_out>>

\* one iteration of `while let Some(..) = stack.pop()`
FcboPop ==
    /\ pc = "fcbo"
    /\ stack # <<>>
    /\ Len(result) < MaxOut
    /\ LET frame == stack[Len(stack)]
           rest == SubSeq(stack, 1, Len(stack) - 1)
       IN  /\ result' = Append(result, <<to_u128(frame.concept[1]), to_u128(frame.concept[2])>>)
           /\ stack' = fcbo_expand(frame, rest, ctx)
    /\ UNCHANGED <<ctx, pc, infimum, concepts, mapping, heap, popped, lindig_result,
                   dstack, dresult, bits_in, bits_out>>

FcboReturn ==
    /\ pc = "fcbo"
    /\ stack = <<>>
    /\ pc' = "fcbo_ret"
    /\ UNCHANGED <<ctx, infimum, concepts, mapping, heap, popped, lindig_result,
                   stack, result, dstack, dresult, bits_in, bits_out>>

\* fcbo_dual: the prologue
DualCall ==
    /\ pc = "fcbo_ret"
    /\ pc' = "dual"
    /\ dstack' = <<Frame(doubleprime_objects(ctx, new(ctx.n_objects)), 0,
                         [j \in 1 .. ctx.n_objects |-> new(ctx.n_objects)])>>
    /\ dresult' = <<>>
    /\ UNCHANGED <<ctx, infimum, concepts, mapping, heap, popped, lindig_result,
                   stack, result, bits_in, bits_out>>

DualPop ==
    /\ pc = "dual"
    /\ dstack # <<>>
    /\ Len(dresult) < MaxOut
    /\ LET frame == dstack[Len(dstack)]
           rest == SubSeq(dstack, 1, Len(dstack) - 1)
       IN  /\ dresult' = Append(dresult, <<to_u128(frame.concept[1]), to_u128(frame.concept[2])>>)
           /\ dstack' = dual_expand(frame, rest, ctx)
    /\ UNCHANGED <<ctx, pc, infimum, concepts, mapping, heap, popped, lindig_result,
                   stack, result, bits_in, bits_out>>

DualReturn ==
    /\ pc = "dual"
    /\ dstack = <<>>
    /\ pc' = "dual_ret"
    /\ UNCHANGED <<ctx, infimum, concepts, mapping, heap, popped, lindig_result,
                   stack, result, dstack, dresult, bits_in, bits_out>>

\* lindig_lattice_py and the prologue of lindig_lattice, for the raw infimum
LindigCall(raw) ==
    /\ pc = "dual_ret"
    /\ pc' = "lindig"
    /\ LET dp == doubleprime_objects(ctx, from_u128(raw, ctx.n_objects))
       IN  /\ concepts' = <<[extent |-> dp[1], intent |-> dp[2],
                             upper |-> <<>>, lower |-> <<>>]>>
           /\ mapping' = (dp[1].words :> 0)
           /\ heap' = {HeapEntry(dp[1], dp[2], 0)}
    /\ popped' = <<>>
    /\ infimum' = raw
    /\ UNCHANGED <<ctx, lindig_result, stack, result, dstack, dresult, bits_in, bits_out>>

\* one iteration of `while let Some(entry) = heap.pop()`
LindigPop ==
    /\ pc = "lindig"
    /\ heap # {}
    /\ Len(concepts) < MaxOut
    /\ \E entry \in HeapTop(heap) :
          LET current_idx == entry.index
              nbrs == neighbors(concepts[current_idx + 1].extent, ctx)
              st == LinkAll([concepts |-> concepts, mapping |-> mapping,
                             heap |-> heap \ {entry}], nbrs, 1, current_idx)
          IN  /\ concepts' = st.concepts
              /\ mapping' = st.mapping
              /\ heap' = st.heap
              /\ popped' = Append(popped, current_idx)
    /\ UNCHANGED <<ctx, pc, infimum, lindig_result, stack, result, dstack, dresult, bits_in, bits_out>>

\* the conversion to the output format and the return
LindigReturn ==
    /\ pc = "lindig"
    /\ heap = {}
    /\ pc' = "done"
    /\ lindig_result' = [k \in 1 .. Len(concepts) |->
                            <<to_u128(concepts[k].extent), to_u128(concepts[k].intent),
                              concepts[k].upper, concepts[k].lower>>]
    /\ UNCHANGED <<ctx, infimum, concepts, mapping, heap, popped,
                   stack, result, dstack, dresult, bits_in, bits_out>>

\* lindig_lattice started from the empty infimum
Next ==
    \/ FcboCall \/ FcboPop \/ FcboReturn
    \/ DualCall \/ DualPop \/ DualReturn
    \/ LindigCall({}) \/ LindigPop \/ LindigReturn

Spec == Init /\ [][Next]_vars

\* lindig_lattice started from any infimum of the context's width
NextAny ==
    \/ FcboCall \/ FcboPop \/ FcboReturn
    \/ DualCall \/ DualPop \/ DualReturn
    \/ (\E raw \in Raw(ctx.n_objects) : LindigCall(raw))
    \/ LindigPop \/ LindigReturn

\* the states in which NextAny can take a step: a call or a return is always
\* possible, a loop iteration while the output is below the cap MaxOut
NextAnyEnabled ==
    \/ pc \in {"idle", "fcbo_ret", "dual_ret"}
    \/ pc = "fcbo" /\ (stack = <<>> \/ Len(result) < MaxOut)
    \/ pc = "dual" /\ (dstack = <<>> \/ Len(dresult) < MaxOut)
    \/ pc = "lindig" /\ (heap = {} \/ Len(concepts) < MaxOut)

\* each call is one synchronous run: a loop that can take a step takes it.
\* This is weak fairness of NextAny, written out with the enabling condition
\* NextAnyEnabled in place of ENABLED <<NextAny>>_vars.
SpecAny ==
    Init /\ [][NextAny]_vars /\ ([]<>(~NextAnyEnabled) \/ []<><<NextAny>>_vars)

\* ------------------------------------------------------- BitSet::sub_one
\* the inputs of sub_one: every atom of every width up to MaxBits, and the
\* empty bitset of every width
InitBits ==
    /\ ctx = ContextOf(0, 0, {})
    /\ pc = "bits"
    /\ infimum = {}
    /\ concepts = <<>> /\ mapping = <<>> /\ heap = {} /\ popped = <<>>
    /\ lindig_result = <<>>
    /\ stack = <<>> /\ result = <<>> /\ dstack = <<>> /\ dresult = <<>>
    /\ \E n \in 0 .. MaxBits :
          bits_in \in {new(n)} \cup {set(new(n), j) : j \in 0 .. (n - 1)}
    /\ bits_out = NoBits

SubOne ==
    /\ pc = "bits"
    /\ pc' = "bits_done"
    /\ bits_out' = sub_one(bits_in)
    /\ UNCHANGED <<ctx, infimum, concepts, mapping, heap, popped, lindig_result,
                   stack, result, dstack, dresult, bits_in>>

NextBits == SubOne

SpecBits == InitBits /\ [][NextBits]_vars

\* ------------------------------------------------------------ reference
\* The context read as a relation, and the notions of the claims defined on
\* plain sets of object and property indices.
Objs == 0 .. (ctx.n_objects - 1)
Props == 0 .. (ctx.n_properties - 1)

Incident(i, j) == (i % WordBits) \in ctx.extents[j + 1].words[(i \div WordBits) + 1]

WellFormed ==
    \A i \in Objs, j \in Props :
       Incident(i, j) <=> (j % WordBits) \in ctx.intents[i + 1].words[(j \div WordBits) + 1]

RefUp(A) == {j \in Props : \A i \in A : Incident(i, j)}
RefDown(B) == {i \in Objs : \A j \in B : Incident(i, j)}

RefExtents == {A \in SUBSET Objs : RefDown(RefUp(A)) = A}

RefConcepts ==
    {cb \in (SUBSET Objs) \X (SUBSET Props) : RefUp(cb[1]) = cb[2] /\ RefDown(cb[2]) = cb[1]}

Proper(A, B) == A \subseteq B /\ A # B

Range(seq) == {seq[k] : k \in DOMAIN seq}

Occurs(seq, x) == Cardinality({k \in DOMAIN seq : seq[k] = x})

NoRepeat(seq) == \A k, l \in DOMAIN seq : k # l => seq[k] # seq[l]

\* the output of lindig_lattice, by 0-based output index
Idx == 0 .. (Len(lindig_result) - 1)
Ext(u) == lindig_result[u + 1][1]
Upper(u) == lindig_result[u + 1][3]
Lower(u) == lindig_result[u + 1][4]

Between(u, v) == \E w \in Idx : Proper(Ext(u), Ext(w)) /\ Proper(Ext(w), Ext(v))

\* ---------------------------------------------------------------- claims
\* C1: for every well-formed context, the (extent, intent) pairs returned by
\* lindig_lattice from the empty infimum, by fcbo_fast_generate_from and by
\* fcbo_dual are the same set, the set of all formal concepts of the context.
C1_ConceptBijection ==
    pc = "done" =>
       LET L == {<<lindig_result[k][1], lindig_result[k][2]>> : k \in DOMAIN lindig_result}
       IN  /\ WellFormed
           /\ L = Range(result)
           /\ Range(result) = Range(dresult)
           /\ L = RefConcepts

C1_Witness ==
    /\ pc = "done"
    /\ ctx.n_objects >= 3
    /\ Cardinality(RefConcepts) >= 6
    /\ Len(lindig_result) >= 6

\* C2: at every step of either FCBO loop, the output sequence holds no
\* (extent, intent) pair twice.
C2_NoConceptTwice == NoRepeat(result) /\ NoRepeat(dresult)

C2_Witness ==
    /\ pc = "done"
    /\ Len(result) >= 5
    /\ Len(dresult) >= 5
    /\ \E k \in DOMAIN result : result[k] # dresult[k]

\* C3: cover soundness: every edge of the Lindig output, read from upper[u]
\* or from lower[v], joins u to a v with extent(u) a proper subset of
\* extent(v) and no output concept strictly between them.
C3_CoverSound ==
    pc = "done" =>
       \A u \in Idx :
          /\ \A v \in Range(Upper(u)) :
                v \in Idx /\ Proper(Ext(u), Ext(v)) /\ ~Between(u, v) /\ u \in Range(Lower(v))
          /\ \A d \in Range(Lower(u)) :
                d \in Idx /\ Proper(Ext(d), Ext(u)) /\ ~Between(d, u) /\ u \in Range(Upper(d))

C3_Witness ==
    /\ pc = "done"
    /\ \E u, v, w \in Idx :
          /\ v \in Range(Upper(u))
          /\ w \in Range(Upper(v))
          /\ Len(Upper(u)) >= 2

\* C4: cover completeness: for all output concepts u, v with extent(u) a
\* proper subset of extent(v) and none strictly between, v occurs exactly
\* once in upper[u] and u exactly once in lower[v].
C4_CoverComplete ==
    pc = "done" =>
       \A u, v \in Idx :
          (Proper(Ext(u), Ext(v)) /\ ~Between(u, v)) =>
             (Occurs(Upper(u), v) = 1 /\ Occurs(Lower(v), u) = 1)

C4_Witness ==
    /\ pc = "done"
    /\ \E v \in Idx : Len(Lower(v)) >= 2 /\ Len(Upper(v)) >= 1

\* C5 as stated: the bottom concept has output index 0 and every cover edge
\* u -> v of the output has index(u) < index(v).
C5_EdgesAscend ==
    pc = "done" =>
       /\ Ext(0) = RefDown(Props)
       /\ \A u \in Idx : \A v \in Range(Upper(u)) : u < v

\* C5, amended: the bottom concept has output index 0, and every other
\* concept v has a lower cover with a smaller index, the first entry of
\* lower[v] (the concept whose expansion appended v); no edge joins an index
\* to itself.
C5_DiscovererBelow ==
    pc = "done" =>
       /\ Ext(0) = RefDown(Props)
       /\ Lower(0) = <<>>
       /\ \A v \in Idx \ {0} :
             /\ Lower(v) # <<>>
             /\ Lower(v)[1] < v
             /\ v \in Range(Upper(Lower(v)[1]))
       /\ \A u \in Idx : u \notin Range(Upper(u))

\* a cover edge u -> v whose lower end was appended after its upper end
C5_Witness ==
    /\ pc = "done"
    /\ \E u \in Idx : \E v \in Range(Upper(u)) : v < u /\ Lower(v)[1] < v

\* C6 as stated: the top concept is the last element of the output sequence.
C6_TopLast ==
    pc = "done" => Ext(Len(lindig_result) - 1) = Objs

\* C6, amended: the top concept is the last one popped from the worklist
\* (the last expanded) and occurs once in the output; it need not be the
\* last element of the output sequence.
C6_TopPoppedLast ==
    pc = "done" =>
       /\ Ext(popped[Len(popped)]) = Objs
       /\ Cardinality({u \in Idx : Ext(u) = Objs}) = 1

\* the top concept is popped last although a concept was appended after it
C6_Witness ==
    /\ pc = "done"
    /\ Ext(popped[Len(popped)]) = Objs
    /\ popped[Len(popped)] < Len(lindig_result) - 1

\* C7: every run of lindig_lattice (from any infimum), fcbo_fast_generate_from
\* and fcbo_dual empties its worklist or stack and returns.
C7_Terminates == <>(pc = "done")

C7_Witness ==
    /\ pc = "done"
    /\ infimum # {}
    /\ Len(lindig_result) >= 3
    /\ Len(result) >= 6
    /\ Len(dresult) >= 6

\* every bit set in a bitset's words, whatever its declared width
RefBits(b) ==
    {q \in 0 .. (Len(b.words) * WordBits - 1) :
        (q % WordBits) \in b.words[(q \div WordBits) + 1]}

\* C8: sub_one of the atom of width n at position j is the bitset of width n
\* whose set bits are exactly 0 .. j-1.
C8_AtomMinusOne ==
    (pc = "bits_done" /\ Cardinality(RefBits(bits_in)) = 1) =>
       \A j \in RefBits(bits_in) :
          /\ RefBits(bits_out) = 0 .. (j - 1)
          /\ bits_out.n_bits = bits_in.n_bits
          /\ Len(bits_out.words) = Len(bits_in.words)

\* an atom beyond the second word boundary
C8_Witness ==
    /\ pc = "bits_done"
    /\ RefBits(bits_in) = {2 * WordBits}
    /\ Cardinality(RefBits(bits_out)) = 2 * WordBits

\* C9 as stated: sub_one of the atom of width n at position 0 has n set bits.
C9_AtomZeroWraps ==
    (pc = "bits_done" /\ RefBits(bits_in) = {0}) =>
       Cardinality(RefBits(bits_out)) = bits_in.n_bits

\* C9, amended: sub_one of the atom of width n at position 0 has no set bit
\* (it is the empty bitset of width n); the decrement wraps to the universal
\* bitset of width n, with n set bits, when it is applied to the empty bitset.
C9_AtomZeroEmpty ==
    pc = "bits_done" =>
       /\ RefBits(bits_in) = {0} =>
             (RefBits(bits_out) = {} /\ bits_out.n_bits = bits_in.n_bits)
       /\ RefBits(bits_in) = {} =>
             (RefBits(bits_out) = 0 .. (bits_in.n_bits - 1)
              /\ bits_out.n_bits = bits_in.n_bits)

C9_Witness ==
    /\ pc = "bits_done"
    /\ RefBits(bits_in) = {0}
    /\ bits_in.n_bits > WordBits
    /\ RefBits(bits_out) = {}

RECURSIVE RefNum(_)
\* the number a set of bit positions encodes
RefNum(S) == IF S = {} THEN 0 ELSE 2 ^ SetMax(S) + RefNum(S \ {SetMax(S)})

\* shortlex on extents of at most one word: cardinality, then the number
RefShortlexLess(A, B) ==
    \/ Cardinality(A) < Cardinality(B)
    \/ Cardinality(A) = Cardinality(B) /\ RefNum(A) < RefNum(B)

\* the extent of the concept with 0-based index u during the run
ExtOf(u) == to_u128(concepts[u + 1].extent)

\* the closed extents the run can reach that ext covers
RefLowerCovers(ext) ==
    {U \in RefExtents :
        /\ ExtOf(0) \subseteq U
        /\ Proper(U, ext)
        /\ ~\E W \in RefExtents : Proper(U, W) /\ Proper(W, ext)}

\* C10: concepts are popped in strictly increasing shortlex order of their
\* extents; once a concept c is popped, every lower cover of c was popped
\* before it, and lower[c] holds exactly the lower covers of c, each once,
\* from then on.
C10_ShortlexPops ==
    \A l \in 1 .. Len(popped) :
       LET c == popped[l]
           lower == concepts[c + 1].lower
       IN  /\ \A k \in 1 .. (l - 1) : RefShortlexLess(ExtOf(popped[k]), ExtOf(c))
           /\ \A U \in RefLowerCovers(ExtOf(c)) :
                 \E k \in 1 .. (l - 1) : ExtOf(popped[k]) = U
           /\ {ExtOf(lower[m]) : m \in DOMAIN lower} = RefLowerCovers(ExtOf(c))
           /\ Len(lower) = Cardinality(RefLowerCovers(ExtOf(c)))

\* a concept with two lower covers is popped while the worklist still holds
\* a concept of larger cardinality
C10_Witness ==
    /\ pc = "lindig"
    /\ Len(popped) >= 4
    /\ Len(concepts[popped[Len(popped)] + 1].lower) >= 2
    /\ heap # {}

\* the (extent, intent) pairs of the Lindig output, in output order
LindigPairs == [k \in DOMAIN lindig_result |-> <<lindig_result[k][1], lindig_result[k][2]>>]

\* C11: for every well-formed context and every starting extent X, the
\* output of lindig_lattice is exactly the set of concepts whose extent
\* contains the closure X'' of X, each once, with (X'', X') at index 0 and
\* with an empty lower list.
C11_StartingExtent ==
    pc = "done" =>
       LET closure == RefDown(RefUp(infimum))
       IN  /\ WellFormed
           /\ Range(LindigPairs) = {cb \in RefConcepts : closure \subseteq cb[1]}
           /\ NoRepeat(LindigPairs)
           /\ LindigPairs[1] = <<closure, RefUp(infimum)>>
           /\ Lower(0) = <<>>

\* a start that is not closed and whose closure is neither bottom nor top:
\* the output has an edge and leaves out the concepts not above the closure
C11_Witness ==
    /\ pc = "done"
    /\ infimum # {}
    /\ RefDown(RefUp(infimum)) # infimum
    /\ Len(lindig_result) >= 2
    /\ Len(lindig_result) < Cardinality(RefConcepts)

====
